---- MODULE Spec2Model ----
(***************************************************************************)
(* Session-based authentication service (Flask + Flask-Login + SQLAlchemy) *)
(* backend/project/auth/routes.py: register, login, logout, status.        *)
(*                                                                         *)
(* State: the users table, the cookie each HTTP client holds, the requests *)
(* in flight and the HTTP response sent last.  The server keeps no session *)
(* table: login_user / logout_user only rewrite the signed cookie that the *)
(* response hands back to the client, and @login_required resolves the     *)
(* cookie a request presents through load_user.  Each handler is therefore *)
(* a function of the users table, the cookie presented and the body.       *)
(***************************************************************************)
EXTENDS Integers, Sequences, FiniteSets, TLC

VARIABLES users, jar, pc, req, resp

vars == <<users, jar, pc, req, resp>>

(* ---------------------------- bounds ----------------------------------- *)
MaxUsers == 3

Clients == {"c1", "c2"}

(* ------------------------- input alphabets ----------------------------- *)
Usernames == {"root", "alice", ""}
Emails == {"r@x.com", "a@x.com", ""}
Passwords == {"pw123", ""}
RoleStrings == { <<"U","s","e","r">>, <<"A","D","M","I","N">>, <<"r","o","o","t">> }
Salts == {1}

(* ------------------------- str.lower() --------------------------------- *)
UpperLetters == <<"A","B","C","D","E","F","G","H","I","J","K","L","M",
                  "N","O","P","Q","R","S","T","U","V","W","X","Y","Z">>
LowerLetters == <<"a","b","c","d","e","f","g","h","i","j","k","l","m",
                  "n","o","p","q","r","s","t","u","v","w","x","y","z">>

LowerChar(ch) ==
    IF \E i \in 1..26 : UpperLetters[i] = ch
    THEN LowerLetters[CHOOSE i \in 1..26 : UpperLetters[i] = ch]
    ELSE ch

\* .lower() left out
Lower_Identity(s) == s

Lower(s) == [i \in 1..Len(s) |-> LowerChar(s[i])]

(* ------------------------- models/user.py ------------------------------ *)
ADMIN == "ADMIN"
USER == "USER"
ValueError == "ValueError"

\* UserRole(value): enum lookup by value, ValueError for any other string
UserRole(value) ==
    IF value = <<"a","d","m","i","n">> THEN ADMIN
    ELSE IF value = <<"u","s","e","r">> THEN USER
    ELSE ValueError

\* UserRole.value, the serialised form used in responses
RoleValue(role) == IF role = ADMIN THEN "admin" ELSE "user"

\* the password left out of the digest
generate_password_hash_NoPassword(password, salt) ==
    [salt |-> salt, digest |-> <<salt, "">>]

\* generate_password_hash: salted, one-way
generate_password_hash(password, salt) ==
    [salt |-> salt, digest |-> <<salt, password>>]

\* the comparison left out
check_password_hash_Any(pwhash, password) == TRUE

check_password_hash(pwhash, password) ==
    pwhash.digest = <<pwhash.salt, password>>

check_password(user, password) == check_password_hash(user.password_hash, password)

(* ------------------------- the users table ----------------------------- *)
None == [username |-> "<none>", email |-> "<none>",
         password_hash |-> [salt |-> 0, digest |-> <<0, "">>], role |-> "<none>"]

User(username, email, role) ==
    [username |-> username, email |-> email,
     password_hash |-> None.password_hash, role |-> role]

set_password(user, password, salt) ==
    [user EXCEPT !.password_hash = generate_password_hash(password, salt)]

\* User.query.filter_by(username=...).first()
first_by_username(table, username) ==
    IF \E i \in 1..Len(table) : table[i].username = username
    THEN table[CHOOSE i \in 1..Len(table) :
                 /\ table[i].username = username
                 /\ \A j \in 1..Len(table) : table[j].username = username => i <= j]
    ELSE None

\* User.query.filter_by(email=...).first()
first_by_email(table, email) ==
    IF \E i \in 1..Len(table) : table[i].email = email
    THEN table[CHOOSE i \in 1..Len(table) :
                 /\ table[i].email = email
                 /\ \A j \in 1..Len(table) : table[j].email = email => i <= j]
    ELSE None

\* the id of the newest row instead of the row found
IdOf_Newest(table, username) == Len(table)

\* id of a stored row (autoincrement primary key; rows are never deleted)
IdOf(table, username) ==
    CHOOSE i \in 1..Len(table) :
        /\ table[i].username = username
        /\ \A j \in 1..Len(table) : table[j].username = username => i <= j

\* the columns declared without unique=True
UniqueOk_NoConstraint(table, row) == TRUE

\* unique=True on username and on email: the INSERT is rejected otherwise
UniqueOk(table, row) ==
    /\ \A i \in 1..Len(table) : table[i].username # row.username
    /\ \A i \in 1..Len(table) : table[i].email # row.email

\* the row inserted twice
db_add_Twice(table, user) == Append(Append(table, user), user)

\* the row written over the newest one
db_add_Overwrite(table, user) == [table EXCEPT ![Len(table)] = user]

\* db.session.add(new_user); db.session.commit(): INSERT with the next id
db_add(table, user) == Append(table, user)

(* ------------------------- cookies ------------------------------------- *)
\* A cookie is the signed session the server hands to the client: the user
\* id login_user stored in it and the remember flag.
NoCookie == [uid |-> 0, remember |-> FALSE]

Cookie(uid, remember) == [uid |-> uid, remember |-> remember]

\* a session already bound is kept
login_user_KeepBound(tok, user_id, remember) ==
    IF tok.uid # 0 THEN tok ELSE Cookie(user_id, remember)

\* login_user(user, remember): the response sets a cookie bound to the user,
\* whatever cookie the request presented
login_user(tok, user_id, remember) == Cookie(user_id, remember)

\* the cookie left as it was
logout_user_Keep(tok) == tok

\* logout_user(): the response clears the session cookie
logout_user(tok) == NoCookie

\* @login_manager.user_loader
load_user(table, user_id) ==
    IF user_id \in 1..Len(table) THEN table[user_id] ELSE None

\* current_user for a request presenting cookie tok
current_user(table, tok) == load_user(table, tok.uid)

\* @login_required left off the route
is_authenticated_Always(table, tok) == TRUE

\* @login_required lets the request through
is_authenticated(table, tok) == current_user(table, tok) # None

(* ------------------------- requests ------------------------------------ *)
\* request.get_json(): the JSON body.  A key that is absent, or that the
\* handler has not read, carries NoText (NoRole for the role).  The body is
\* fixed when the request is sent; the model draws the value of a field at
\* the line that first reads it, which gives the same runs of the handler
\* and keeps the requests in flight small.
NoText == "<absent>"
NoRole == <<>>

NoData == [username |-> NoText, email |-> NoText, password |-> NoText, role |-> NoRole]

\* data.get('role', 'user')
get_role(data) == IF data.role # NoRole THEN data.role ELSE <<"u","s","e","r">>

(* ------------------------- responses ----------------------------------- *)
NoInfo == <<0, "", "">>

UserInfo(id, user) == <<id, user.username, RoleValue(user.role)>>

\* the answer of an endpoint: the status code and the JSON body
\* (its "message" and, for login and status, its "user")
Response(op, code, message, info) ==
    [op |-> op, code |-> code, message |-> message, user |-> info]

\* the handler answering 403
unauthorized_Forbidden(op) ==
    Response(op, 403, "Authentication required.", NoInfo)

\* extensions.py: unauthorized_handler
unauthorized(op) ==
    Response(op, 401, "Authentication required.", NoInfo)

\* an exception nobody catches: the framework answers 500
InternalServerError(op, exc) ==
    Response(op, 500, exc, NoInfo)

NoResp == Response("-", 0, "", NoInfo)

(* ------------------------- initial state ------------------------------- *)
\* The deployment is bootstrapped with one administrator account.
RootUser == set_password(User("root", "r@x.com", ADMIN), "pw123", 1)

Init ==
    /\ users = <<RootUser>>
    /\ jar = [c \in Clients |-> NoCookie]
    /\ pc = [c \in Clients |-> "idle"]
    /\ req = [c \in Clients |-> NoData]
    /\ resp = NoResp

(* ------------------------- helpers for the handlers -------------------- *)
\* routes.py:20 (not data, or a required key missing)
MissingRegisterFields(keys) ==
    \/ keys = {}
    \/ ~ ("username" \in keys)
    \/ ~ ("password" \in keys)
    \/ ~ ("email" \in keys)

\* routes.py:47
MissingLoginFields(keys) ==
    \/ keys = {}
    \/ ~ ("username" \in keys)
    \/ ~ ("password" \in keys)

\* the keys of a login body
LoginKeys(username, password) ==
    {k \in {"username", "password"} :
        IF k = "username" THEN username # NoText ELSE password # NoText}

\* the admin check left out
IsAdmin_NoCheck(user) == TRUE

\* routes.py:16
IsAdmin(user) == user.role = ADMIN

\* the handler has not returned yet
Pending == Response("register", 0, "", NoInfo)

(* ------------------------- the handlers as functions ------------------- *)
\* Each handler maps the users table, the cookie presented and the body to
\* its response (and to the table or the cookie it leaves behind).

\* register, routes.py:10-21: @login_required, the admin check, the
\* presence check
register_begin(table, tok, keys) ==
    IF ~ is_authenticated(table, tok)
    THEN unauthorized("register")
    ELSE IF ~ IsAdmin(current_user(table, tok))
    THEN Response("register", 403, "Permission denied", NoInfo)
    ELSE IF MissingRegisterFields(keys)
    THEN Response("register", 400, "Missing username, email, or password", NoInfo)
    ELSE Pending

\* the username check left out
register_check_username_Skip(table, data) == Pending

\* register, routes.py:23-24
register_check_username(table, data) ==
    IF first_by_username(table, data.username) # None
    THEN Response("register", 409, "Username already exists", NoInfo)
    ELSE Pending

\* register, routes.py:26-27
register_check_email(table, data) ==
    IF first_by_email(table, data.email) # None
    THEN Response("register", 409, "Email already exists", NoInfo)
    ELSE Pending

\* register, routes.py:29-39: build the row, hash the password, INSERT and
\* commit
register_commit(table, data, salt) ==
    LET role == UserRole(Lower(get_role(data)))
        user == set_password(User(data.username, data.email, role), data.password, salt)
    IN IF role = ValueError
       THEN [resp |-> InternalServerError("register", "ValueError"), users |-> table]
       ELSE IF ~ UniqueOk(table, user)
       THEN [resp |-> InternalServerError("register", "IntegrityError"), users |-> table]
       ELSE [resp |-> Response("register", 201, "User registered successfully", NoInfo),
             users |-> db_add(table, user)]

\* login, routes.py:41-65
login(table, tok, username, password) ==
    LET user == first_by_username(table, username)
    IN IF MissingLoginFields(LoginKeys(username, password))
       THEN [resp |-> Response("login", 400, "Missing username or password", NoInfo),
             cookie |-> tok]
       ELSE IF user = None \/ ~ check_password(user, password)
       THEN [resp |-> Response("login", 401, "Invalid username or password", NoInfo),
             cookie |-> tok]
       ELSE [resp |-> Response("login", 200, "Login successful",
                               UserInfo(IdOf(table, username), user)),
             cookie |-> login_user(tok, IdOf(table, username), TRUE)]

\* logout, routes.py:67-74
logout(table, tok) ==
    IF ~ is_authenticated(table, tok)
    THEN [resp |-> unauthorized("logout"), cookie |-> tok]
    ELSE [resp |-> Response("logout", 200, "Logout successful", NoInfo),
          cookie |-> logout_user(tok)]

\* status, routes.py:76-89
status(table, tok) ==
    IF ~ is_authenticated(table, tok)
    THEN unauthorized("status")
    ELSE Response("status", 200, "isAuthenticated",
                  UserInfo(tok.uid, current_user(table, tok)))

(* ------------------------- the requests served ------------------------- *)
\* the response goes out and the request is over
Reply(c, r) ==
    /\ resp' = r
    /\ pc' = [pc EXCEPT ![c] = "idle"]
    /\ req' = [req EXCEPT ![c] = NoData]

\* the handler goes on to its next line
Continue(c, line, data) ==
    /\ pc' = [pc EXCEPT ![c] = line]
    /\ req' = [req EXCEPT ![c] = data]
    /\ UNCHANGED resp

\* POST /api/auth/register, up to the presence check
RegisterBegin(c, keys) ==
    /\ pc[c] = "idle"
    /\ UNCHANGED <<users, jar>>
    /\ LET r == register_begin(users, jar[c], keys)
       IN IF r = Pending THEN Continue(c, "check_username", NoData) ELSE Reply(c, r)

RegisterCheckUsername(c, username) ==
    /\ pc[c] = "check_username"
    /\ UNCHANGED <<users, jar>>
    /\ LET data == [req[c] EXCEPT !.username = username]
           r == register_check_username(users, data)
       IN IF r = Pending THEN Continue(c, "check_email", data) ELSE Reply(c, r)

RegisterCheckEmail(c, email) ==
    /\ pc[c] = "check_email"
    /\ UNCHANGED <<users, jar>>
    /\ LET data == [req[c] EXCEPT !.email = email]
           r == register_check_email(users, data)
       IN IF r = Pending THEN Continue(c, "commit", data) ELSE Reply(c, r)

RegisterCommit(c, password, requested_role) ==
    /\ pc[c] = "commit"
    /\ UNCHANGED jar
    /\ \E salt \in Salts :
          LET data == [req[c] EXCEPT !.password = password, !.role = requested_role]
              out == register_commit(users, data, salt)
          IN /\ Len(out.users) <= MaxUsers
             /\ users' = out.users
             /\ Reply(c, out.resp)

\* POST /api/auth/login; the handler never reads a "remember" key of the body
Login(c, username, password, remember) ==
    /\ pc[c] = "idle"
    /\ UNCHANGED users
    /\ LET out == login(users, jar[c], username, password)
       IN /\ jar' = [jar EXCEPT ![c] = out.cookie]
          /\ Reply(c, out.resp)

\* POST /api/auth/logout
Logout(c) ==
    /\ pc[c] = "idle"
    /\ UNCHANGED users
    /\ LET out == logout(users, jar[c])
       IN /\ jar' = [jar EXCEPT ![c] = out.cookie]
          /\ Reply(c, out.resp)

\* GET /api/auth/status
Status(c) ==
    /\ pc[c] = "idle"
    /\ UNCHANGED <<users, jar>>
    /\ Reply(c, status(users, jar[c]))

(* ------------------------- the service --------------------------------- *)
Next ==
    \/ \E c \in Clients, keys \in SUBSET {"username", "email", "password"} :
          RegisterBegin(c, keys)
    \/ \E c \in Clients, username \in Usernames : RegisterCheckUsername(c, username)
    \/ \E c \in Clients, email \in Emails : RegisterCheckEmail(c, email)
    \/ \E c \in Clients, password \in Passwords, role \in RoleStrings \cup {NoRole} :
          RegisterCommit(c, password, role)
    \/ \E c \in Clients, username \in Usernames \cup {NoText},
          password \in Passwords \cup {NoText}, remember \in BOOLEAN :
             Login(c, username, password, remember)
    \/ \E c \in Clients : Logout(c)
    \/ \E c \in Clients : Status(c)

Spec == Init /\ [][Next]_vars

(***************************************************************************)
(* Properties                                                              *)
(***************************************************************************)
RegisterKeys == SUBSET {"username", "email", "password"}

\* the session a client presents resolves to a stored user
SessionValid(c) == jar[c].uid \in 1..Len(users)

\* the password a stored user was registered with
RegisteredPassword(user) == user.password_hash.digest[2]

\* C1: a register call, whatever its payload, answers 401 Authentication
\* required when the caller's session is absent or invalid and 403 Permission
\* denied when the session is valid and the actor is not an admin; both are
\* decided before the payload is looked at.
C1_RegisterGate ==
    \A c \in Clients, keys \in RegisterKeys :
        /\ ~ SessionValid(c) =>
              register_begin(users, jar[c], keys) =
                 [op |-> "register", code |-> 401,
                  message |-> "Authentication required.", user |-> NoInfo]
        /\ (SessionValid(c) /\ users[jar[c].uid].role # "ADMIN") =>
              register_begin(users, jar[c], keys) =
                 [op |-> "register", code |-> 403,
                  message |-> "Permission denied", user |-> NoInfo]

\* a logged-in user who is not an admin has been refused by register
C1_Witness ==
    /\ resp.op = "register"
    /\ resp.code = 403
    /\ \E c \in Clients : SessionValid(c) /\ users[jar[c].uid].role = "USER"

\* the role strings Python's str.lower() maps onto an enum value
IsRoleSpelling(r) ==
    r \in { <<"A","D","M","I","N">>, <<"U","s","e","r">> }

\* C2: of two register calls by admins with the same username, in any
\* interleaving, the one that reaches the store second is answered 409
\* Username already exists (exactly one success, one DuplicateUsername).
C2_LoserGetsDuplicateUsername ==
    [][\A c \in Clients, password \in Passwords, role \in RoleStrings \cup {NoRole} :
          ( /\ RegisterCommit(c, password, role)
            /\ role = NoRole \/ IsRoleSpelling(role)
            /\ \E i \in 1..Len(users) : users[i].username = req[c].username )
          => resp' = [op |-> "register", code |-> 409,
                      message |-> "Username already exists", user |-> NoInfo]]_vars

\* C3: once a logout on a session cookie has completed, a status, logout or
\* register call that presents that same cookie is answered 401.
C3_LoggedOutCookieRejected ==
    [][\A c \in Clients :
          (Logout(c) /\ resp'.code = 200) =>
             /\ status(users', jar[c]) = unauthorized("status")
             /\ logout(users', jar[c]).resp = unauthorized("logout")
             /\ \A keys \in RegisterKeys :
                   register_begin(users', jar[c], keys) = unauthorized("register")]_vars

\* C4: no two stored users share a username and no two share an email.
C4_UsernameAndEmailUnique ==
    \A i, j \in 1..Len(users) :
        i # j => /\ users[i].username # users[j].username
                 /\ users[i].email # users[j].email

\* two users were added and a racing INSERT was refused by the store
C4_Witness ==
    /\ Len(users) = 3
    /\ resp.op = "register"
    /\ resp.message = "IntegrityError"

\* C5: the store grows only by the commit of a register call made under an
\* admin's session; a user with role user can log in, status shows the role
\* "user", and a register call under that user's session is answered 403 and
\* adds no user.
C5_OnlyAdminsRegister ==
    /\ [][users' # users =>
             \E c \in Clients :
                /\ pc[c] = "commit"
                /\ pc'[c] = "idle"
                /\ SessionValid(c)
                /\ users[jar[c].uid].role = "ADMIN"
                /\ Len(users') = Len(users) + 1
                /\ SubSeq(users', 1, Len(users)) = users]_vars
    /\ [](\A c \in Clients :
             (SessionValid(c) /\ users[jar[c].uid].role = "USER") =>
                /\ \A keys \in RegisterKeys :
                      register_begin(users, jar[c], keys).code = 403
                /\ status(users, jar[c]).code = 200
                /\ status(users, jar[c]).user[3] = "user")
    /\ [](\A c \in Clients, i \in 2..Len(users) :
             users[i].role = "USER" =>
                LET out == login(users, jar[c], users[i].username,
                                 RegisteredPassword(users[i]))
                IN /\ out.resp.code = 200
                   /\ out.resp.user = <<i, users[i].username, "user">>
                   /\ out.cookie.uid = i)

\* alice, registered by root with the default role, is logged in and her
\* register call has been refused
C5_Witness ==
    /\ resp = [op |-> "register", code |-> 403,
               message |-> "Permission denied", user |-> NoInfo]
    /\ \E c \in Clients :
          /\ SessionValid(c)
          /\ users[jar[c].uid].username = "alice"
          /\ users[jar[c].uid].email = "a@x.com"
          /\ users[jar[c].uid].role = "USER"
          /\ RegisteredPassword(users[jar[c].uid]) = "pw123"

\* some stored user has this username and was registered with this password
Credentials(username, password) ==
    \E i \in 1..Len(users) :
        users[i].username = username /\ RegisteredPassword(users[i]) = password

\* C6: a login with a username that does not exist and a login with an
\* existing username and a wrong password get the same answer, 401 Invalid
\* username or password with the same body, and neither creates a session.
C6_InvalidCredentialsUniform ==
    \A c \in Clients, username \in Usernames, password \in Passwords :
        ~ Credentials(username, password) =>
           login(users, jar[c], username, password) =
              [resp |-> [op |-> "login", code |-> 401,
                         message |-> "Invalid username or password",
                         user |-> NoInfo],
               cookie |-> jar[c]]

\* a login has been refused while a registered account exists
C6_Witness ==
    /\ resp = [op |-> "login", code |-> 401,
               message |-> "Invalid username or password", user |-> NoInfo]
    /\ \E i \in 2..Len(users) : users[i].username = "alice"
    /\ \A c \in Clients : jar[c] = NoCookie

\* C7: login succeeds exactly when a user with the username exists and the
\* password is the one the user was registered with; then the session is
\* bound to that user and the response carries the user's id, username and
\* role, and a status call on that session returns the same id, username and
\* role.
C7_LoginBindsUser ==
    \A c \in Clients, username \in Usernames \cup {NoText},
       password \in Passwords \cup {NoText} :
        LET out == login(users, jar[c], username, password)
        IN IF Credentials(username, password)
           THEN \E i \in 1..Len(users) :
                   /\ users[i].username = username
                   /\ out.resp = [op |-> "login", code |-> 200,
                                  message |-> "Login successful",
                                  user |-> <<i, username,
                                             IF users[i].role = "ADMIN"
                                             THEN "admin" ELSE "user">>]
                   /\ out.cookie.uid = i
                   /\ status(users, out.cookie).code = 200
                   /\ status(users, out.cookie).user = out.resp.user
           ELSE /\ out.resp.op = "login"
                /\ out.resp.code # 200
                /\ out.cookie = jar[c]

\* status has answered for alice on the session her login created
C7_Witness ==
    /\ resp.op = "status"
    /\ resp.code = 200
    /\ resp.user[2] = "alice"
    /\ \E c \in Clients : jar[c].uid = resp.user[1]

\* C8: a user with an empty username, email or password is never stored
\* (a register call with such a field is refused with 400).
C8_NoEmptyFieldStored ==
    \A i \in 1..Len(users) :
        /\ users[i].username # ""
        /\ users[i].email # ""
        /\ RegisteredPassword(users[i]) # ""

\* C9: a register call by an admin with fresh username and email and a role
\* that is no spelling of admin or user is answered with a structured error
\* response, not a server fault, and leaves the store unchanged.
C9_InvalidRoleIsStructured ==
    [][\A c \in Clients :
          pc[c] = "commit" =>
             \A password \in Passwords, role \in RoleStrings :
                ( /\ ~ IsRoleSpelling(role)
                  /\ \A i \in 1..Len(users) :
                        /\ users[i].username # req[c].username
                        /\ users[i].email # req[c].email
                  /\ RegisterCommit(c, password, role) )
                => /\ resp'.code \in 400..499
                   /\ users' = users]_vars

\* C10: the commit of a register call whose role is a spelling of admin
\* stores role admin, of user stores role user, and without a role stores
\* role user, unless the store refuses the row; every stored role is admin or
\* user.
C10_RoleParsedCaseInsensitively ==
    /\ \A i \in 1..Len(users) : users[i].role \in {"ADMIN", "USER"}
    /\ \A c \in Clients :
          pc[c] = "commit" =>
             \A password \in Passwords, role \in RoleStrings \cup {NoRole},
                salt \in Salts :
                (role = NoRole \/ IsRoleSpelling(role)) =>
                   LET out == register_commit(
                                 users,
                                 [req[c] EXCEPT !.password = password, !.role = role],
                                 salt)
                   IN \/ /\ out.resp.message = "IntegrityError"
                         /\ out.users = users
                      \/ /\ out.resp.code = 201
                         /\ Len(out.users) = Len(users) + 1
                         /\ out.users[Len(out.users)].username = req[c].username
                         /\ out.users[Len(out.users)].role =
                               IF role = <<"A","D","M","I","N">>
                               THEN "ADMIN" ELSE "USER"

\* a register call spelled ADMIN has stored an admin
C10_Witness ==
    /\ resp.op = "register"
    /\ resp.code = 201
    /\ users[Len(users)].role = "ADMIN"
    /\ users[Len(users)].username = "alice"

\* C11: when a register call has stored a user, a login with that username
\* and the password of the call succeeds and a login with that username and
\* any other password is answered 401 Invalid username or password; the same
\* holds for every stored user in every later state.
C11_RegisteredPasswordLogsIn ==
    /\ \A c \in Clients :
          pc[c] = "commit" =>
             \A password \in Passwords, role \in RoleStrings \cup {NoRole},
                salt \in Salts :
                LET out == register_commit(
                              users,
                              [req[c] EXCEPT !.password = password, !.role = role],
                              salt)
                IN out.resp.code = 201 =>
                      /\ out.users[Len(out.users)].username = req[c].username
                      /\ \A d \in Clients :
                            /\ login(out.users, jar[d], req[c].username,
                                     password).resp.code = 200
                            /\ \A other \in Passwords \ {password} :
                                  login(out.users, jar[d], req[c].username, other).resp =
                                     [op |-> "login", code |-> 401,
                                      message |-> "Invalid username or password",
                                      user |-> NoInfo]
    /\ \A i \in 1..Len(users), d \in Clients, password \in Passwords :
          LET out == login(users, jar[d], users[i].username, password)
          IN IF password = RegisteredPassword(users[i])
             THEN out.resp.code = 200 /\ out.resp.user[1] = i
             ELSE out.resp.code = 401 /\ out.cookie = jar[d]

\* alice has logged in with the password she was registered with
C11_Witness ==
    /\ resp.op = "login"
    /\ resp.code = 200
    /\ resp.user[2] = "alice"
    /\ \E i \in 2..Len(users) :
          users[i].username = "alice" /\ RegisteredPassword(users[i]) = "pw123"

\* C12: a stored user stays stored with the same id, username and role: no
\* step deletes a row, moves it or changes its username or role.
C12_UsersNeverChange ==
    [][/\ Len(users') >= Len(users)
       /\ \A i \in 1..Len(users) :
             /\ users'[i].username = users[i].username
             /\ users'[i].role = users[i].role]_vars

\* two users have been registered and a logout has been served since
C12_Witness ==
    /\ Len(users) = 3
    /\ resp.op = "logout"
    /\ resp.code = 200

\* a handler has returned in this step (it did not go on to its next line)
Replied == \A c \in Clients : pc'[c] = "idle" \/ pc'[c] = pc[c]

LoginSucceeded == Replied /\ resp'.op = "login" /\ resp'.code = 200

LogoutSucceeded == Replied /\ resp'.op = "logout" /\ resp'.code = 200

\* C13: a client's session changes only by a successful login, which binds
\* it to the user of the response, and by a successful logout, which leaves
\* it unauthenticated; every other step (failed login, register, status,
\* refused logout) leaves every session authenticated or not as it was and
\* bound to the same user.
C13_SessionChangesOnlyByLoginLogout ==
    [][/\ ~ (LoginSucceeded \/ LogoutSucceeded) =>
             \A c \in Clients :
                /\ jar'[c] = jar[c]
                /\ current_user(users', jar'[c]) = current_user(users, jar[c])
       /\ LoginSucceeded =>
             \E c \in Clients :
                /\ jar'[c].uid = resp'.user[1]
                /\ current_user(users', jar'[c]) # None
                /\ \A d \in Clients \ {c} : jar'[d] = jar[d]
       /\ LogoutSucceeded =>
             \E c \in Clients :
                /\ current_user(users, jar[c]) # None
                /\ current_user(users', jar'[c]) = None
                /\ \A d \in Clients \ {c} : jar'[d] = jar[d]]_vars

\* a login has been refused while a client holds alice's session
C13_Witness ==
    /\ resp.op = "login"
    /\ resp.code = 401
    /\ \E c \in Clients : SessionValid(c) /\ users[jar[c].uid].username = "alice"

\* C14: register checks in the order validation, duplicate username,
\* duplicate email, role parsing.  A call whose username exists is answered
\* 409 Username already exists at the username check, before its email and
\* its role are read, whatever they are; the email check is reached only with
\* a username that did not exist, and the role is parsed only after both.
C14_RegisterCheckOrder ==
    /\ [](\A c \in Clients :
             /\ pc[c] = "check_username" =>
                   /\ req[c] = NoData
                   /\ \A username \in Usernames :
                         (\E i \in 1..Len(users) : users[i].username = username) =>
                            register_check_username(
                               users, [req[c] EXCEPT !.username = username]) =
                               [op |-> "register", code |-> 409,
                                message |-> "Username already exists",
                                user |-> NoInfo]
             /\ pc[c] = "check_email" =>
                   /\ req[c].username # NoText
                   /\ req[c].email = NoText
                   /\ req[c].role = NoRole
                   /\ \A email \in Emails :
                         (\E i \in 1..Len(users) : users[i].email = email) =>
                            register_check_email(
                               users, [req[c] EXCEPT !.email = email]) =
                               [op |-> "register", code |-> 409,
                                message |-> "Email already exists",
                                user |-> NoInfo]
             /\ pc[c] = "commit" =>
                   /\ req[c].username # NoText
                   /\ req[c].email # NoText
                   /\ req[c].role = NoRole)
    /\ [][\A c \in Clients :
             /\ (pc[c] = "check_username" /\ pc'[c] = "idle") =>
                   /\ resp'.message = "Username already exists"
                   /\ users' = users
             /\ (pc[c] = "check_username" /\ pc'[c] # pc[c] /\ pc'[c] # "idle") =>
                   /\ pc'[c] = "check_email"
                   /\ \A i \in 1..Len(users) : users[i].username # req'[c].username
             /\ (pc[c] = "check_email" /\ pc'[c] = "idle") =>
                   /\ resp'.message = "Email already exists"
                   /\ users' = users
             /\ (pc[c] = "check_email" /\ pc'[c] # pc[c] /\ pc'[c] # "idle") =>
                   /\ pc'[c] = "commit"
                   /\ \A i \in 1..Len(users) : users[i].email # req'[c].email
             /\ (pc[c] = "idle" /\ pc'[c] # "idle") => pc'[c] = "check_username"
             /\ (pc[c] = "commit" /\ pc'[c] # pc[c]) =>
                   /\ pc'[c] = "idle"
                   /\ resp'.message \in {"ValueError", "IntegrityError",
                                         "User registered successfully"}]_vars

\* with alice stored, a register call has been refused at the username check
C14_Witness ==
    /\ resp.op = "register"
    /\ resp.code = 409
    /\ resp.message = "Username already exists"
    /\ \E i \in 2..Len(users) : users[i].username = "alice" /\ users[i].email = "a@x.com"

\* C15: the session created by a successful login carries the remember flag
\* the caller gave: remember=false a non-persistent session, remember=true a
\* persistent one.
C15_RememberFlagHonoured ==
    [][\A c \in Clients, username \in Usernames, password \in Passwords,
          remember \in BOOLEAN :
          (Login(c, username, password, remember) /\ resp'.code = 200) =>
             jar'[c].remember = remember]_vars

\* C16: logout and status on a session that is absent or invalid answer 401
\* Authentication required and change no session and no user; logout on a
\* valid session answers 200, and a second logout on the session it leaves
\* answers 401.
C16_LogoutStatusNeedSession ==
    /\ [](\A c \in Clients :
             IF SessionValid(c)
             THEN /\ logout(users, jar[c]).resp =
                        [op |-> "logout", code |-> 200,
                         message |-> "Logout successful", user |-> NoInfo]
                  /\ logout(users, logout(users, jar[c]).cookie) =
                        [resp |-> [op |-> "logout", code |-> 401,
                                   message |-> "Authentication required.",
                                   user |-> NoInfo],
                         cookie |-> logout(users, jar[c]).cookie]
             ELSE /\ logout(users, jar[c]) =
                        [resp |-> [op |-> "logout", code |-> 401,
                                   message |-> "Authentication required.",
                                   user |-> NoInfo],
                         cookie |-> jar[c]]
                  /\ status(users, jar[c]) =
                        [op |-> "status", code |-> 401,
                         message |-> "Authentication required.", user |-> NoInfo])
    /\ [][(Replied /\ resp'.op \in {"logout", "status"} /\ resp'.code = 401) =>
             (users' = users /\ jar' = jar)]_vars
    /\ [][\A c \in Clients :
             Logout(c) => resp'.code = (IF SessionValid(c) THEN 200 ELSE 401)]_vars

\* a logout without a session has been refused
C16_Witness ==
    /\ resp = [op |-> "logout", code |-> 401,
               message |-> "Authentication required.", user |-> NoInfo]
    /\ \A c \in Clients : jar[c] = NoCookie
    /\ Len(users) = 2

\* C17: a register call answered 201 adds exactly one user after the ones
\* stored; every other step (a register call that fails or has not returned,
\* login, logout, status) leaves the users table as it was.
C17_StoreFrame ==
    [][IF Replied /\ resp'.op = "register" /\ resp'.code = 201
       THEN /\ Len(users') = Len(users) + 1
            /\ SubSeq(users', 1, Len(users)) = users
       ELSE users' = users]_vars

\* a second user has been registered
C17_Witness ==
    /\ resp.op = "register"
    /\ resp.code = 201
    /\ Len(users) = 3

\* C18: on a session bound to user A, a login with the username and the
\* registered password of another user B binds the session to B, and status
\* on it returns B's id, username and role, not A's; a login that fails
\* leaves the session bound to A.
C18_LoginRebindsSession ==
    \A c \in Clients :
        SessionValid(c) =>
           /\ \A i \in (1..Len(users)) \ {jar[c].uid} :
                 LET out == login(users, jar[c], users[i].username,
                                  RegisteredPassword(users[i]))
                 IN /\ out.resp.code = 200
                    /\ out.cookie.uid = i
                    /\ status(users, out.cookie) =
                          [op |-> "status", code |-> 200, message |-> "isAuthenticated",
                           user |-> <<i, users[i].username,
                                      IF users[i].role = "ADMIN"
                                      THEN "admin" ELSE "user">>]
                    /\ status(users, out.cookie).user[1] # jar[c].uid
           /\ \A username \in Usernames \cup {NoText},
                 password \in Passwords \cup {NoText} :
                 ~ Credentials(username, password) =>
                    LET out == login(users, jar[c], username, password)
                    IN /\ out.resp.code \in {400, 401}
                       /\ out.cookie = jar[c]
                       /\ status(users, out.cookie).user[1] = jar[c].uid

\* alice has logged in and every client, the one that registered her under
\* root's session included, now holds alice's session
C18_Witness ==
    /\ resp.op = "login"
    /\ resp.code = 200
    /\ resp.user[2] = "alice"
    /\ resp.user[1] # 1
    /\ \A c \in Clients : jar[c].uid = resp.user[1]

====
